---- MODULE Spec2Model ----
(***************************************************************************)
(* Model of the autoconverter script (src/script.mjs): the mirror pass     *)
(* (cleanDestination, processSource, processFile) and the run scheduler    *)
(* (run, timer, keypress handler).                                         *)
(*                                                                         *)
(* Strings are tuples of one-character strings, so that includes, replace, *)
(* toLowerCase and the path functions are computed character by character. *)
(* The file system is one name space (a set of file paths and a set of     *)
(* directory paths), compared exactly (case-sensitive, as on Linux), so    *)
(* that a configuration whose roots coincide is representable.             *)
(* Profile search patterns are drawn from strings without regular          *)
(* expression metacharacters.                                              *)
(***************************************************************************)
EXTENDS Integers, Sequences, FiniteSets, TLC

VARIABLES
    CONF,          \* the loaded configuration (force flags are mutated by run)
    files,         \* file paths present on the file system
    dirs,          \* directory paths present on the file system
    pc,            \* position of the process: start, clean, walk, idle, crashed, exited
    isRunning,     \* script.mjs:245
    scheduledRun,  \* script.mjs:246 : "null", "pending" (armed) or "stale" (fired or cleared)
    timers,        \* number of armed timers that have not fired
    stdin,         \* keys typed and not yet delivered to the keypress handler
    todo,          \* processSource: entries still to be visited, depth first
    cur,           \* processFile: the file whose transform threw, <<>> when none
    k,             \* processFile: index of the screen whose transform threw
    noscreen,      \* processFile: local of line 87 when the transform threw
    log,           \* what the current pass did (reset when a pass starts or ends)
    hist,          \* facts about the run so far that the properties refer to
    mapping,       \* processFile: a path of the source tree, a screen and the
                   \* outputPath of line 117 for them (path mapping alone)
    question       \* script.mjs:299: the prompt of rl.question: "none", "asked"
                   \* (callback waiting), "closed" (answered y), "refused"

vars == <<CONF, files, dirs, pc, isRunning, scheduledRun, timers, stdin,
          todo, cur, k, noscreen, log, hist, mapping, question>>

----------------------------------------------------------------------------
(* Bounds *)

MaxKeys == 1        \* keys that can wait in stdin
MaxDeletes == 1     \* source files the user deletes between passes

----------------------------------------------------------------------------
(* Strings *)

\* String.prototype.toLowerCase on the characters the model uses
LowerChar(c) ==
    CASE c = "L" -> "l"
      [] c = "T" -> "t"
      [] c = "U" -> "u"
      [] OTHER -> c

toLowerCase(s) == [i \in 1..Len(s) |-> LowerChar(s[i])]

OccursAt(s, pat, i) ==
    /\ i >= 1
    /\ i + Len(pat) - 1 <= Len(s)
    /\ \A j \in 1..Len(pat) : s[i + j - 1] = pat[j]

\* first index >= i at which pat occurs in s, 0 when there is none
RECURSIVE indexFrom(_, _, _)
indexFrom(s, pat, i) ==
    IF i > Len(s) + 1 THEN 0
    ELSE IF OccursAt(s, pat, i) THEN i
    ELSE indexFrom(s, pat, i + 1)

\* String.prototype.indexOf, 1-based, 0 when absent
indexOf(s, pat) == indexFrom(s, pat, 1)

\* last index <= i at which pat occurs in s, 0 when there is none
RECURSIVE lastIndexFrom(_, _, _)
lastIndexFrom(s, pat, i) ==
    IF i < 1 THEN 0
    ELSE IF OccursAt(s, pat, i) THEN i
    ELSE lastIndexFrom(s, pat, i - 1)

\* String.prototype.lastIndexOf, 1-based, 0 when absent
lastIndexOf(s, pat) == lastIndexFrom(s, pat, Len(s) + 1)

includes(s, pat) == \E i \in 1..(Len(s) + 1) : OccursAt(s, pat, i)

startsWith(s, pat) == OccursAt(s, pat, 1)

endsWith(s, pat) == OccursAt(s, pat, Len(s) - Len(pat) + 1)

Splice(s, i, n, rep) == SubSeq(s, 1, i - 1) \o rep \o SubSeq(s, i + n, Len(s))

\* String.prototype.replace(string, string): first occurrence, case-sensitive
replace(s, pat, rep) ==
    LET i == indexOf(s, pat)
    IN  IF i = 0 THEN s ELSE Splice(s, i, Len(pat), rep)

\* new RegExp(pat, 'i') matches s at index i.  pat is made of characters
\* that stand for themselves and of ".", which stands for any character.
RegExpMatchesAt(s, pat, i) ==
    /\ i >= 1
    /\ i + Len(pat) - 1 <= Len(s)
    /\ \A j \in 1..Len(pat) :
          pat[j] = "." \/ LowerChar(s[i + j - 1]) = LowerChar(pat[j])

\* RegExp.prototype.exec from index i: the index of the leftmost match at or
\* after i, 0 when there is none
RECURSIVE regExpSearchFrom(_, _, _)
regExpSearchFrom(s, pat, i) ==
    IF i > Len(s) THEN 0
    ELSE IF RegExpMatchesAt(s, pat, i) THEN i
    ELSE regExpSearchFrom(s, pat, i + 1)

\* String.prototype.replace(new RegExp(pat, 'i'), rep): the first match is
\* replaced (rep without "$")
replaceRegExpI(s, pat, rep) ==
    LET i == regExpSearchFrom(s, pat, 1)
    IN  IF i = 0 THEN s ELSE Splice(s, i, Len(pat), rep)

----------------------------------------------------------------------------
(* Paths (node:path, posix) *)

SEP == <<"/">>

RECURSIVE normalize(_)
normalize(p) ==
    LET i == indexOf(p, SEP \o SEP)
    IN  IF i = 0 THEN p ELSE normalize(Splice(p, i, 2, SEP))

\* path.join of two segments
join(a, b) ==
    IF b = <<>> THEN normalize(a)
    ELSE IF a = <<>> THEN normalize(b)
    ELSE normalize(a \o SEP \o b)

join3(a, b, c) == join(join(a, b), c)

basename(p) == SubSeq(p, lastIndexOf(p, SEP) + 1, Len(p))

dirname(p) ==
    LET i == lastIndexOf(p, SEP)
    IN  IF i <= 1 THEN SEP ELSE SubSeq(p, 1, i - 1)

\* p lies strictly below directory d
Under(p, d) == startsWith(p, d \o SEP)

\* every ancestor directory of p, p excluded
RECURSIVE ancestors(_)
ancestors(p) ==
    IF Len(p) <= 1 THEN {}
    ELSE {dirname(p)} \cup ancestors(dirname(p))

----------------------------------------------------------------------------
(* File system (node:fs).  An fs value is a record [files, dirs, deleted]; *)
(* deleted accumulates the paths an operation removed.                     *)

existsSync(fs, p) == p \in fs.files \/ p \in fs.dirs

isDirectory(fs, p) == p \in fs.dirs

\* order in which readdirSync lists names: by character code
Alphabet == <<".", "/", "4", "L", "T", "U", "d", "l", "m", "n", "o", "p",
              "s", "t", "u", "w", "x">>

Rank(c) == CHOOSE i \in 1..Len(Alphabet) : Alphabet[i] = c

RECURSIVE Before(_, _)
Before(a, b) ==
    IF a = <<>> THEN b # <<>>
    ELSE IF b = <<>> THEN FALSE
    ELSE IF Head(a) = Head(b) THEN Before(Tail(a), Tail(b))
    ELSE Rank(Head(a)) < Rank(Head(b))

RECURSIVE SortNames(_)
SortNames(S) ==
    IF S = {} THEN <<>>
    ELSE LET m == CHOOSE x \in S : \A y \in S \ {x} : Before(x, y)
         IN  <<m>> \o SortNames(S \ {m})

\* fs.readdirSync(d): the names of the entries of directory d
readdirSync(fs, d) ==
    SortNames({basename(p) : p \in {q \in fs.files \cup fs.dirs : q # d /\ dirname(q) = d}})

\* fs.mkdirSync(d, {recursive: true})
mkdirSync(fs, d) ==
    [fs EXCEPT !.dirs = @ \cup {d} \cup (ancestors(d) \ {SEP})]

\* fs.unlinkSync(p)
unlinkSync(fs, p) ==
    [fs EXCEPT !.files = @ \ {p}, !.deleted = @ \cup {p}]

\* variant of rmSync: only the directory entry goes, as fs.rmdirSync would do
rmSync_notRecursive(fs, p) ==
    [fs EXCEPT !.dirs = @ \ {p}, !.deleted = @ \cup {p}]

\* fs.rmSync(p, {recursive: true, force: true})
rmSync(fs, p) ==
    LET gone == {q \in fs.files \cup fs.dirs : q = p \/ Under(q, p)}
    IN  [fs EXCEPT !.files = @ \ gone, !.dirs = @ \ gone, !.deleted = @ \cup gone]

FS == [files |-> files, dirs |-> dirs, deleted |-> {}]

----------------------------------------------------------------------------
(* Configurations (config.json after loadConfig) and initial trees *)

SRC == <<"/", "s">>
DST == <<"/", "d">>
MP4 == <<".", "m", "p", "4">>

Screen(search, target, force) ==
    [search |-> search, target |-> target, force |-> force]

Conf(source, destination, force, retry, ns, screens) ==
    [source |-> source, destination |-> destination, force |-> force,
     retry |-> retry, noscreen |-> ns, screens |-> screens]

\* configurations loadConfig accepts: every screen has search and target,
\* source and destination exist; nothing relates source to destination
Configs ==
    { Conf(SRC, DST, FALSE, 1, "absent", <<Screen(<<"L">>, <<"T">>, FALSE)>>),
      Conf(SRC, DST, TRUE, 0, "copy",
           <<Screen(<<"L">>, <<"T">>, FALSE), Screen(<<"L">>, <<"U">>, FALSE)>>),
      Conf(SRC, DST, FALSE, 1, "convert",
           <<Screen(<<"L">>, <<"T">>, FALSE), Screen(<<"L">>, <<"U">>, TRUE)>>),
      Conf(SRC, SRC, FALSE, 0, "absent", <<Screen(<<"L">>, <<"T">>, FALSE)>>) }

SourceFiles ==
    { SRC \o SEP \o <<"L">> \o MP4,
      SRC \o SEP \o <<"l">> \o MP4,
      SRC \o SEP \o <<"L", "T">> \o MP4,
      SRC \o SEP \o <<"x">> \o MP4,
      SRC \o SEP \o <<"n">>,
      SRC \o SEP \o <<".", "L">> \o MP4,
      SRC \o SEP \o <<"T">> \o SEP \o <<"L">> \o MP4,
      SRC \o SEP \o <<"L">> \o SEP \o <<"T">> \o MP4 }

DestFiles ==
    { DST \o SEP \o <<"T">> \o MP4,
      DST \o SEP \o <<"o">> \o MP4,
      DST \o SEP \o <<"T">> \o SEP \o <<"T">> \o MP4,
      DST \o SEP \o <<"w">> \o SEP \o <<"T">> \o MP4 }

MaxSourceFiles == 2   \* files in the initial source tree
MaxDestFiles == 1     \* files in the initial destination tree

----------------------------------------------------------------------------
(* processFile and cleanDestination: the pure parts *)

ScreenIds == 1..Len(CONF.screens)

\* variant of alreadyProcessed: the check is missing, as in the first
\* iteration of the script
alreadyProcessed_absent(filename) == FALSE

\* script.mjs:91-98
alreadyProcessed(filename) ==
    \E i \in ScreenIds :
        includes(toLowerCase(filename), toLowerCase(CONF.screens[i].target))

\* variant of matchesSearch: the comparison respects case, as in the first
\* iteration of the script
matchesSearch_caseSensitive(filename, screen) == includes(filename, screen.search)

\* script.mjs:111
matchesSearch(filename, screen) ==
    includes(toLowerCase(filename), toLowerCase(screen.search))

\* script.mjs:83
folderOf(filePath) == replace(dirname(filePath), CONF.source, <<>>)

\* script.mjs:114-117
outputPathOf(filePath, screen) ==
    join3(CONF.destination, folderOf(filePath),
          replaceRegExpI(basename(filePath), screen.search, screen.target))

\* script.mjs:160 and 172-173 (an .mp4 name keeps its name under /\.[^/.]+$/ -> ".mp4")
plainOutputPath(filePath) ==
    join3(CONF.destination, folderOf(filePath), basename(filePath))

\* script.mjs:232-235: every screen's target replaced by its search, in
\* table order, each on the result of the previous one, in the whole path
RECURSIVE replaceTargets(_, _)
replaceTargets(path, i) ==
    IF i > Len(CONF.screens) THEN path
    ELSE replaceTargets(replace(path, CONF.screens[i].target, CONF.screens[i].search), i + 1)

\* script.mjs:220
sourcePathOf(dest, file) ==
    join(replace(dest, CONF.destination, CONF.source), file)

\* script.mjs:199-201
ignored(file) ==
    \/ startsWith(file, <<".">>)
    \/ includes(file, <<"s", "y", "n", "c", "-", "c", "o", "n", "f", "l", "i", "c", "t">>)
    \/ includes(file, <<"s", "y", "n", "c", "t", "h", "i", "n", "g">>)

\* script.mjs:211-243
RECURSIVE cleanDestination(_, _), cleanEntries(_, _, _)
cleanDestination(fs, dest) == cleanEntries(fs, dest, readdirSync(fs, dest))

cleanEntries(fs, dest, names) ==
    IF names = <<>> THEN fs
    ELSE LET file == Head(names)
             filePath == join(dest, file)
             sourcePath == sourcePathOf(dest, file)
         IN  IF isDirectory(fs, filePath)
             THEN IF ~existsSync(fs, sourcePath)
                  THEN cleanEntries(rmSync(fs, filePath), dest, Tail(names))
                  ELSE cleanEntries(cleanDestination(fs, filePath), dest, Tail(names))
             ELSE IF ~existsSync(fs, replaceTargets(sourcePath, 1))
                  THEN cleanEntries(unlinkSync(fs, filePath), dest, Tail(names))
                  ELSE cleanEntries(fs, dest, Tail(names))

\* script.mjs:194-196: the entries of a directory as paths, in readdir order
entriesOf(fs, d) ==
    LET names == readdirSync(fs, d)
    IN  [i \in 1..Len(names) |-> join(d, names[i])]

----------------------------------------------------------------------------
(* State *)

NoMapping == [rel |-> <<>>, profile |-> 0, outputPath |-> <<>>]

EmptyLog ==
    [visited |-> {}, processed |-> {}, transformed |-> {}, skipped |-> {},
     copied |-> {}, converted |-> {}, failed |-> {}, deleted |-> {}, cleaned |-> FALSE,
     by |-> {}]

anyForce == CONF.force \/ \E i \in ScreenIds : CONF.screens[i].force

Init ==
    /\ CONF \in Configs
    /\ \E S \in SUBSET SourceFiles,
          D \in SUBSET {f \in DestFiles : Under(f, CONF.destination)} :
          /\ Cardinality(S) <= MaxSourceFiles
          /\ Cardinality(D) <= MaxDestFiles
          /\ files = S \cup D
          /\ dirs = {SRC, DST} \cup
                    UNION {ancestors(f) \ {SEP} : f \in S \cup D}
    /\ pc = "start"
    /\ isRunning = FALSE
    /\ scheduledRun = "null"
    /\ timers = 0
    /\ stdin = <<>>
    /\ todo = <<>>
    /\ cur = <<>>
    /\ k = 0
    /\ noscreen = FALSE
    /\ log = EmptyLog
    /\ hist = [completed |-> FALSE, srcChanged |-> FALSE, dirty |-> FALSE,
               forced |-> FALSE, deletes |-> 0, removed |-> {}, origin |-> {},
               trigger |-> "none", running |-> 0]
    /\ mapping = NoMapping
    /\ question = IF anyForce THEN "asked" ELSE "none"

----------------------------------------------------------------------------
(* Run scheduler *)

\* variant of run: isRunning is not set when the pass starts
run_flagNotSet(sr, tm, trig) ==
    /\ scheduledRun' = IF sr = "pending" THEN "stale" ELSE sr
    /\ timers' = IF sr = "pending" THEN tm - 1 ELSE tm
    /\ IF isRunning
       THEN UNCHANGED <<pc, isRunning, log, hist>>
       ELSE /\ isRunning' = isRunning
            /\ pc' = "clean"
            /\ log' = EmptyLog
            /\ hist' = [hist EXCEPT !.forced = anyForce,
                                    !.dirty = hist.srcChanged,
                                    !.srcChanged = FALSE,
                                    !.trigger = trig,
                                    !.running = @ + 1]
    /\ UNCHANGED <<CONF, files, dirs, todo, cur, k, noscreen, mapping, question>>

\* variant of run: the pending timer is not cleared (line 251 missing)
run_timerNotCleared(sr, tm, trig) ==
    /\ UNCHANGED <<scheduledRun>>
    /\ timers' = tm
    /\ IF isRunning
       THEN UNCHANGED <<pc, isRunning, log, hist>>
       ELSE /\ isRunning' = TRUE
            /\ pc' = "clean"
            /\ log' = EmptyLog
            /\ hist' = [hist EXCEPT !.forced = anyForce,
                                    !.dirty = hist.srcChanged,
                                    !.srcChanged = FALSE,
                                    !.trigger = trig,
                                    !.running = @ + 1]
    /\ UNCHANGED <<CONF, files, dirs, todo, cur, k, noscreen, mapping, question>>

\* script.mjs:250-256: run(), entered with the timer state (sr, tm) and
\* called because of trigger trig
run(sr, tm, trig) ==
    /\ scheduledRun' = IF sr = "pending" THEN "stale" ELSE sr
    /\ timers' = IF sr = "pending" THEN tm - 1 ELSE tm
    /\ IF isRunning
       THEN UNCHANGED <<pc, isRunning, log, hist>>
       ELSE /\ isRunning' = TRUE
            /\ pc' = "clean"
            /\ log' = EmptyLog
            /\ hist' = [hist EXCEPT !.forced = anyForce,
                                    !.dirty = hist.srcChanged,
                                    !.srcChanged = FALSE,
                                    !.trigger = trig,
                                    !.running = @ + 1]
    /\ UNCHANGED <<CONF, files, dirs, todo, cur, k, noscreen, mapping, question>>

\* script.mjs:324: the first call of run, at the end of the script
Main ==
    /\ pc = "start"
    /\ run(scheduledRun, timers, "main")
    /\ UNCHANGED stdin

\* script.mjs:287: the timer set by setTimeout(run, ...) fires; callbacks run
\* only when the synchronous pass has returned
TimerFires ==
    /\ pc = "idle"
    /\ question # "asked"
    /\ timers > 0
    /\ run(IF timers = 1 THEN "stale" ELSE scheduledRun, timers - 1, "timer")
    /\ UNCHANGED stdin

\* a key is typed; it waits in stdin while the pass blocks the event loop
\* (during: a key that calls run was typed while a pass was running).  The
\* pass is synchronous and reads no input, so the moment within the pass at
\* which the key arrives makes no difference to the program: the arrival is
\* placed where the walk has emptied its list, before lines 278-288.  Keys
\* typed behind a waiting "q" are never read (line 317 exits), so they are
\* not queued.
KeyTyped(key) ==
    /\ (pc = "idle" /\ question # "asked") \/ (pc = "walk" /\ todo = <<>>)
    /\ Len(stdin) < MaxKeys
    /\ \A i \in DOMAIN stdin : stdin[i].key # "q"
    /\ stdin' = Append(stdin, [key |-> key,
                                during |-> key # "q" /\ pc = "walk"])
    /\ UNCHANGED <<CONF, files, dirs, pc, isRunning, scheduledRun, timers,
                   todo, cur, k, noscreen, mapping, question, log, hist>>

\* script.mjs:315-322: the keypress handler
Keypress ==
    /\ pc = "idle"
    /\ question # "asked"
    /\ stdin # <<>>
    /\ stdin' = Tail(stdin)
    /\ IF Head(stdin).key = "q"
       THEN /\ pc' = "exited"
            /\ UNCHANGED <<CONF, files, dirs, isRunning, scheduledRun, timers,
                           todo, cur, k, noscreen, mapping, question, log, hist>>
       ELSE run(scheduledRun, timers,
                IF Head(stdin).during THEN "key-during" ELSE "key-idle")

----------------------------------------------------------------------------
(* The pass *)

\* script.mjs:272 and the readdirSync of processSource(CONF.source), line 194
Clean ==
    /\ pc = "clean"
    /\ LET fs == cleanDestination(FS, CONF.destination)
       IN  /\ files' = fs.files
           /\ dirs' = fs.dirs
           /\ log' = [log EXCEPT !.deleted = fs.deleted, !.cleaned = TRUE]
           /\ todo' = entriesOf(fs, CONF.source)
    /\ pc' = "walk"
    /\ cur' = <<>>
    /\ k' = 0
    /\ noscreen' = FALSE
    /\ hist' = [hist EXCEPT !.trigger = "none"]
    /\ UNCHANGED <<CONF, isRunning, scheduledRun, timers, stdin, mapping, question>>

\* The state a call of processFile works on: the file system, the log of the
\* pass, the producer of each artifact, the local noscreen, and whether (and at
\* which screen index) execSync threw.
FileState ==
    [files |-> files, dirs |-> dirs, log |-> log, origin |-> hist.origin,
     noscreen |-> TRUE, crashed |-> FALSE, k |-> 0]

\* script.mjs:149 and 180: execSync of ffmpeg writing out from src; ok is the
\* exit status, partial whether a failed run left a file at out.  A nonzero
\* status makes execSync throw; nothing catches it, the process dies.
execSync(st, src, out, ok, partial, kind) ==
    IF ok
    THEN [st EXCEPT !.files = @ \cup {out},
                    !.log[kind] = @ \cup {<<src, out>>},
                    !.origin = {o \in @ : o[1] # out} \cup {<<out, src>>}]
    ELSE [st EXCEPT !.files = IF partial THEN @ \cup {out} ELSE @,
                    !.log.failed = @ \cup {<<src, out>>},
                    !.crashed = TRUE]

\* variant of screenLoop: the loop stops at the first screen that matches
RECURSIVE screenLoop(_, _, _, _, _)
screenLoop_stopsAtFirstMatch(st, filePath, i, failAt, partial) ==
    IF i > Len(CONF.screens) THEN [st EXCEPT !.k = i]
    ELSE LET screen == CONF.screens[i]
             out == outputPathOf(filePath, screen)
             matched == [st EXCEPT !.noscreen = FALSE]
             done == execSync(mkdirSync(matched, dirname(out)), filePath, out,
                              failAt # i, partial, "transformed")
         IN  IF ~matchesSearch(basename(filePath), screen)
             THEN screenLoop(st, filePath, i + 1, failAt, partial)
             ELSE IF existsSync(matched, out) /\ ~CONF.force /\ ~screen.force
             THEN [matched EXCEPT !.log.skipped = @ \cup {<<filePath, out>>}, !.k = i]
             ELSE IF done.crashed
             THEN [done EXCEPT !.k = i]
             ELSE [done EXCEPT !.log.by = @ \cup {<<filePath, out, i>>}, !.k = i]

\* script.mjs:105-151: the loop over CONF.screens from index i; failAt is the
\* index of the screen whose ffmpeg run fails (0: none).  log.by keeps the
\* screen whose cropratio, resolution and player built the command (135-149).
screenLoop(st, filePath, i, failAt, partial) ==
    IF i > Len(CONF.screens) THEN [st EXCEPT !.k = i]
    ELSE LET screen == CONF.screens[i]
             out == outputPathOf(filePath, screen)
             matched == [st EXCEPT !.noscreen = FALSE]
             done == execSync(mkdirSync(matched, dirname(out)), filePath, out,
                              failAt # i, partial, "transformed")
         IN  IF ~matchesSearch(basename(filePath), screen)
             THEN screenLoop(st, filePath, i + 1, failAt, partial)
             ELSE IF existsSync(matched, out) /\ ~CONF.force /\ ~screen.force
             THEN screenLoop([matched EXCEPT !.log.skipped = @ \cup {<<filePath, out>>}],
                             filePath, i + 1, failAt, partial)
             ELSE IF done.crashed
             THEN [done EXCEPT !.k = i]
             ELSE screenLoop([done EXCEPT !.log.by = @ \cup {<<filePath, out, i>>}],
                             filePath, i + 1, failAt, partial)

\* script.mjs:153-187: after the loop
noScreenBranch(st, filePath, ok, partial) ==
    LET out == plainOutputPath(filePath)
    IN  IF ~st.noscreen THEN st
        ELSE IF CONF.noscreen = "copy" \/ ~endsWith(basename(filePath), MP4)
        THEN IF existsSync(st, out) /\ ~CONF.force THEN st
             ELSE [mkdirSync(st, dirname(out)) EXCEPT
                      !.files = @ \cup {out},
                      !.log.copied = @ \cup {<<filePath, out>>}]
        ELSE IF CONF.noscreen = "convert"
        THEN IF existsSync(st, out) /\ ~CONF.force THEN st
             ELSE execSync(mkdirSync(st, dirname(out)), filePath, out, ok, partial,
                           "converted")
        ELSE st

\* script.mjs:78-188
processFile(st, filePath, failAt, partial) ==
    LET seen == [st EXCEPT !.log.visited = @ \cup {filePath}]
    IN  IF alreadyProcessed(basename(filePath))
        THEN [seen EXCEPT !.log.processed = @ \cup {filePath}]
        ELSE CHOOSE after \in
                 {IF looped.crashed THEN looped
                  ELSE noScreenBranch(looped, filePath,
                                      failAt # Len(CONF.screens) + 1, partial) :
                      looped \in {screenLoop(seen, filePath, 1, failAt, partial)}} : TRUE

\* script.mjs:194-206 for one entry of the walk: skipped, a directory that is
\* entered, or a file given to processFile (failAt names a screen that
\* matches the file, or the conversion of the no-screen branch).  When
\* execSync throws, the process dies: the rest of the walk and the keys
\* waiting for it are lost.
Visit(failAt, partial) ==
    /\ pc = "walk"
    /\ todo # <<>>
    /\ failAt = 0 => ~partial
    /\ failAt \in ScreenIds =>
          matchesSearch(basename(Head(todo)), CONF.screens[failAt])
    /\ failAt > Len(CONF.screens) =>
          CONF.noscreen = "convert" /\ endsWith(Head(todo), MP4)
    /\ \E st \in {IF ignored(basename(Head(todo))) \/ isDirectory(FS, Head(todo))
                  THEN FileState
                  ELSE processFile(FileState, Head(todo), failAt, partial)} :
          /\ todo' = IF st.crashed THEN <<>>
                     ELSE IF ~ignored(basename(Head(todo))) /\ isDirectory(FS, Head(todo))
                     THEN entriesOf(FS, Head(todo)) \o Tail(todo)
                     ELSE Tail(todo)
          /\ stdin' = IF st.crashed THEN <<>> ELSE stdin
          /\ files' = st.files
          /\ dirs' = st.dirs
          /\ log' = st.log
          /\ hist' = [hist EXCEPT !.origin = st.origin]
          /\ pc' = IF st.crashed THEN "crashed" ELSE pc
          /\ cur' = IF st.crashed THEN Head(todo) ELSE <<>>
          /\ k' = IF st.crashed THEN st.k ELSE 0
          /\ noscreen' = IF st.crashed THEN st.noscreen ELSE FALSE
    /\ UNCHANGED <<CONF, isRunning, scheduledRun, timers, mapping, question>>

\* variant of RunEnd: the destination is reconciled once more after the walk
RunEnd_reconcilesAgain ==
    /\ pc = "walk"
    /\ cur = <<>>
    /\ todo = <<>>
    /\ isRunning' = FALSE
    /\ CONF' = [CONF EXCEPT !.force = FALSE,
                            !.screens = [i \in DOMAIN @ |-> [@[i] EXCEPT !.force = FALSE]]]
    /\ IF CONF.retry > 0
       THEN scheduledRun' = "pending" /\ timers' = timers + 1
       ELSE UNCHANGED <<scheduledRun, timers>>
    /\ pc' = "idle"
    /\ hist' = [hist EXCEPT !.completed = TRUE,
                            !.removed = {},
                            !.running = @ - 1]
    /\ log' = EmptyLog
    /\ files' = cleanDestination(FS, CONF.destination).files
    /\ dirs' = cleanDestination(FS, CONF.destination).dirs
    /\ UNCHANGED <<stdin, todo, cur, k, noscreen, mapping, question>>

\* variant of RunEnd: the timer is armed whatever CONF.retry is
RunEnd_armsAlways ==
    /\ pc = "walk"
    /\ cur = <<>>
    /\ todo = <<>>
    /\ isRunning' = FALSE
    /\ CONF' = [CONF EXCEPT !.force = FALSE,
                            !.screens = [i \in DOMAIN @ |-> [@[i] EXCEPT !.force = FALSE]]]
    /\ scheduledRun' = "pending" /\ timers' = timers + 1
    /\ pc' = "idle"
    /\ hist' = [hist EXCEPT !.completed = TRUE,
                            !.removed = {},
                            !.running = @ - 1]
    /\ log' = EmptyLog
    /\ UNCHANGED <<files, dirs, stdin, todo, cur, k, noscreen, mapping, question>>

\* script.mjs:278-288
RunEnd ==
    /\ pc = "walk"
    /\ cur = <<>>
    /\ todo = <<>>
    /\ isRunning' = FALSE
    /\ CONF' = [CONF EXCEPT !.force = FALSE,
                            !.screens = [i \in DOMAIN @ |-> [@[i] EXCEPT !.force = FALSE]]]
    /\ IF CONF.retry > 0
       THEN scheduledRun' = "pending" /\ timers' = timers + 1
       ELSE UNCHANGED <<scheduledRun, timers>>
    /\ pc' = "idle"
    /\ hist' = [hist EXCEPT !.completed = TRUE,
                            !.removed = {},
                            !.running = @ - 1]
    /\ log' = EmptyLog
    /\ UNCHANGED <<files, dirs, stdin, todo, cur, k, noscreen, mapping, question>>

\* script.mjs:299-305: the callback of rl.question; it waits for a line of
\* input and, like every callback, runs only when the synchronous pass has
\* returned.  Any answer but "y" ends the process.  The answer "y" closes the
\* interface and changes nothing else, so it commutes with every other event
\* of the idle process, and a refusal ends the process as "q" does: the
\* answer is placed first among the events that follow the first pass (the
\* other events of the idle process wait for question # "asked").
Answer(answer) ==
    /\ pc = "idle"
    /\ question = "asked"
    /\ question' = IF answer = "y" THEN "closed" ELSE "refused"
    /\ pc' = IF answer = "y" THEN pc ELSE "exited"
    /\ UNCHANGED <<CONF, files, dirs, isRunning, scheduledRun, timers, stdin,
                   todo, cur, k, noscreen, mapping, log, hist>>

\* the user deletes a file of the source tree between two passes
UserDeletes(f) ==
    /\ pc = "idle"
    /\ question # "asked"
    /\ hist.deletes < MaxDeletes
    /\ f \in files
    /\ Under(f, CONF.source)
    /\ files' = files \ {f}
    /\ hist' = [hist EXCEPT !.deletes = @ + 1, !.srcChanged = TRUE,
                            !.removed = @ \cup {f}]
    /\ UNCHANGED <<CONF, dirs, pc, isRunning, scheduledRun, timers, stdin,
                   todo, cur, k, noscreen, mapping, question, log>>

Next ==
    \/ Main
    \/ TimerFires
    \/ \E key \in {"q", "x"} : KeyTyped(key)
    \/ Keypress
    \/ Clean
    \/ \E failAt \in 0..(Len(CONF.screens) + 1), partial \in BOOLEAN :
          Visit(failAt, partial)
    \/ RunEnd
    \/ \E f \in SourceFiles : UserDeletes(f)
    \/ \E answer \in {"y", "n"} : Answer(answer)

Spec == Init /\ [][Next]_vars

\* A step that moves the program from position p to position q and changes
\* nothing else.  It is enabled exactly when pc = p, so that weak fairness of
\* it says that the program does not stay at p for ever.
Off(p, q) ==
    /\ pc = p
    /\ pc' = q
    /\ UNCHANGED <<CONF, files, dirs, isRunning, scheduledRun, timers, stdin,
                   todo, cur, k, noscreen, mapping, question, log, hist>>

\* Scheduling of the runtime: the synchronous pass runs on (lines 272-288:
\* Clean is enabled whenever pc = "clean", and at "walk" either a Visit or
\* RunEnd is, over a finite tree, so weak fairness of these steps is that pc
\* leaves "clean" and leaves "walk"); an armed timer fires and a delivered
\* key is handled once the event loop is free.  The answer to the open
\* question comes first among the idle events (see Answer), so it is taken
\* too.  Nothing else is assumed of the user (KeyTyped, UserDeletes).
Fairness ==
    /\ WF_vars(Main)
    /\ WF_vars(Off("clean", "walk"))
    /\ WF_vars(Off("walk", "idle"))
    /\ WF_vars(RunEnd)
    /\ WF_vars(TimerFires)
    /\ WF_vars(Keypress)
    /\ WF_vars(\E answer \in {"y", "n"} : Answer(answer))

LiveSpec == Spec /\ Fairness

----------------------------------------------------------------------------
(* The path mapping of processFile alone: lines 82-83 and 110-117 applied  *)
(* to a path of the source tree and a screen under a range of              *)
(* configurations.                                                         *)

\* source roots as config.json may write them (loadConfig checks existence
\* only): plain, and with a trailing separator
MapRoots == {SRC, SRC \o SEP}

MapScreens ==
    { <<Screen(<<"L">>, <<"T">>, FALSE)>>,
      <<Screen(<<"L", ".">>, <<"T">>, FALSE)>>,
      <<Screen(<<"L">>, <<"T">>, FALSE), Screen(<<"x">>, <<"U">>, FALSE)>> }

MapConfigs ==
    {Conf(src, DST, FALSE, 0, "absent", sc) : src \in MapRoots, sc \in MapScreens}

MapNames ==
    { <<"L">> \o MP4, <<"l">> \o MP4, <<"x", "L">> \o MP4,
      <<"L", "x", "L">> \o MP4, <<"L", "L">> \o MP4, <<"L">> }

MapFolders == { <<>>, <<"a">>, <<"L">>, <<"a", "/", "L">> }

\* paths relative to the source root
MapPaths ==
    {IF f = <<>> THEN n ELSE f \o SEP \o n : f \in MapFolders, n \in MapNames}

MapInit ==
    /\ CONF \in MapConfigs
    /\ files = {}
    /\ dirs = {SRC, DST}
    /\ pc = "map"
    /\ isRunning = FALSE
    /\ scheduledRun = "null"
    /\ timers = 0
    /\ stdin = <<>>
    /\ todo = <<>>
    /\ cur = <<>>
    /\ k = 0
    /\ noscreen = FALSE
    /\ log = EmptyLog
    /\ hist = [completed |-> FALSE, srcChanged |-> FALSE, dirty |-> FALSE,
               forced |-> FALSE, deletes |-> 0, removed |-> {}, origin |-> {},
               trigger |-> "none", running |-> 0]
    /\ mapping = NoMapping
    /\ question = "none"

\* script.mjs:196 (filePath), 82-83, 91-102, 110-117 for the file at rel and
\* screen i
MapFile(rel, i) ==
    /\ pc = "map"
    /\ i \in ScreenIds
    /\ LET filePath == join(CONF.source, rel)
       IN  /\ ~alreadyProcessed(basename(filePath))
           /\ matchesSearch(basename(filePath), CONF.screens[i])
           /\ mapping' = [rel |-> rel, profile |-> i,
                          outputPath |-> outputPathOf(filePath, CONF.screens[i])]
    /\ UNCHANGED <<CONF, files, dirs, pc, isRunning, scheduledRun, timers, stdin,
                   todo, cur, k, noscreen, log, hist, question>>

MapNext == \E rel \in MapPaths, i \in 1..2 : MapFile(rel, i)

MapSpec == MapInit /\ [][MapNext]_vars

----------------------------------------------------------------------------
(* Vocabulary of the properties *)

\* the pass body has run to its end (state before lines 278-288)
PassDone == pc = "walk" /\ cur = <<>> /\ todo = <<>>

\* every (source, output) pair the pass wrote or tried to write
Written == log.transformed \cup log.converted \cup log.copied

NoWriteYet == Written = {} /\ log.failed = {}

\* reconciliation has run and the source walk has written nothing yet
JustCleaned == pc = "walk" /\ log.cleaned /\ NoWriteYet

\* the filename contains the search pattern of the screen, ignoring case
searchOccurs(name, screen) ==
    \E i \in 1..Len(name) :
        OccursAt(toLowerCase(name), toLowerCase(screen.search), i)

\* the filename contains the target token of some screen, ignoring case
hasTargetToken(name) ==
    \E n \in ScreenIds, i \in 1..Len(name) :
        OccursAt(toLowerCase(name), toLowerCase(CONF.screens[n].target), i)

\* the path below root, root removed
relative(path, root) == SubSeq(path, Len(root) + 1, Len(path))

\* destination of source file s under a screen: same relative directory,
\* first occurrence (ignoring case) of search in the basename replaced by target
destinationPath(s, screen) ==
    LET name == basename(s)
        at == CHOOSE i \in 1..Len(name) :
                 /\ OccursAt(toLowerCase(name), toLowerCase(screen.search), i)
                 /\ \A h \in 1..(i - 1) :
                       ~OccursAt(toLowerCase(name), toLowerCase(screen.search), h)
    IN  CONF.destination \o relative(dirname(s), CONF.source) \o SEP
          \o Splice(name, at, Len(screen.search), screen.target)

\* the name with every screen's target token substituted back to its search
RECURSIVE substituteBack(_, _)
substituteBack(name, n) ==
    IF n > Len(CONF.screens) THEN name
    ELSE LET t == CONF.screens[n].target
             hit == {i \in 1..Len(name) : OccursAt(name, t, i)}
             first == CHOOSE i \in hit : \A h \in hit : i <= h
         IN  substituteBack(IF hit = {} THEN name
                            ELSE Splice(name, first, Len(t), CONF.screens[n].search),
                            n + 1)

\* conjectured source of a destination file: its directory moved under the
\* source root, its name with the target tokens substituted back
conjecturedSource(d) ==
    CONF.source \o relative(dirname(d), CONF.destination) \o SEP
      \o substituteBack(basename(d), 1)

DestinationTree == {f \in files : Under(f, CONF.destination)}

----------------------------------------------------------------------------
(* Properties *)

\* C1: a pass that follows a completed pass, with no force flag set and the
\* source tree unchanged in between, invokes no transform and no copy and
\* deletes nothing, so that it leaves the destination tree as it found it.
C1_Idempotence ==
    (PassDone /\ hist.completed /\ ~hist.forced /\ ~hist.dirty)
        => (Written = {} /\ log.deleted = {})

\* C2: cleanDestination deletes no destination file that is the
\* destinationPath of an existing source file under a screen whose search
\* pattern occurs in that file's name.
C2_ValidArtifactKept ==
    JustCleaned =>
        \A s \in files \cup log.deleted, n \in ScreenIds :
            (Under(s, CONF.source) /\ searchOccurs(basename(s), CONF.screens[n]))
                => destinationPath(s, CONF.screens[n]) \notin log.deleted

\* C3: after cleanDestination no destination file is left whose conjectured
\* source does not exist, and every artifact produced from a source file the
\* user deleted since the previous pass is gone.
C3_OrphansRemoved ==
    JustCleaned =>
        /\ \A d \in DestinationTree : conjecturedSource(d) \in files \cup dirs
        /\ \A o \in hist.origin : o[2] \in hist.removed => o[1] \notin files

C5_FailureDoesNotAbort ==
    log.failed # {} => pc # "crashed"

\* C6: when a pass has ended, whatever its outcome, no force flag is set.
C6_ForceCleared ==
    pc \in {"idle", "exited", "crashed"} => ~anyForce

\* C7: no path under the source root is ever deleted by the program.
C7_SourceNeverDeleted ==
    \A p \in log.deleted : ~Under(p, CONF.source)

\* C8: at most one pass is active, and a pass is active only while isRunning
\* is set, so that no pass starts while another is active.
C8_OnePassInFlight ==
    /\ hist.running <= 1
    /\ (pc \in {"clean", "walk"}) => (isRunning /\ hist.running = 1)
    /\ (pc \in {"start", "idle", "exited"}) => (~isRunning /\ hist.running = 0)

\* a pass is active while a key typed during that pass waits in stdin
C8_Witness ==
    /\ pc = "walk"
    /\ isRunning
    /\ stdin # <<>>
    /\ Head(stdin).during

\* C9: a key typed while a pass is running starts no pass, neither
\* immediately nor later.
C9_TriggerWhileRunningIsNoop ==
    hist.trigger # "key-during"

\* C10: a file whose name contains a target token (ignoring case) is never
\* transformed, copied or converted, whatever the force flags.
C10_NoSelfReprocessing ==
    \A e \in Written \cup log.failed : ~hasTargetToken(basename(e[1]))

\* a forced pass visited a file whose name contains both a search pattern and
\* a target token, and wrote nothing for it
C10_Witness ==
    /\ PassDone
    /\ hist.forced
    /\ Written # {}
    /\ \E f \in log.processed :
          /\ hasTargetToken(basename(f))
          /\ \E n \in ScreenIds : searchOccurs(basename(f), CONF.screens[n])
          /\ \A e \in Written : e[1] # f


\* a visited file matches the search patterns of two profiles with distinct
\* target tokens, and each of the two has its destination file: written by
\* this pass with that profile's parameters, or found and skipped
FannedOut(s, m, n) ==
    LET dm == destinationPath(s, CONF.screens[m])
        dn == destinationPath(s, CONF.screens[n])
    IN  /\ dm # dn
        /\ dm \in files /\ dn \in files
        /\ <<s, dm, m>> \in log.by \/ <<s, dm>> \in log.skipped
        /\ <<s, dn, n>> \in log.by \/ <<s, dn>> \in log.skipped

TwoProfilesMatch(s, m, n) ==
    /\ m # n
    /\ CONF.screens[m].target # CONF.screens[n].target
    /\ searchOccurs(basename(s), CONF.screens[m])
    /\ searchOccurs(basename(s), CONF.screens[n])

WalkNotStarted ==
    /\ log.visited = {}
    /\ Written = {} /\ log.skipped = {} /\ log.failed = {}

\* C12: in every pass the walk is entered from reconciliation only, a step
\* of the program that removes a path is the reconciliation step, taken when
\* the walk of the pass has decided nothing, and no step taken once the walk
\* has begun removes a path or adds to the deletions of the pass.
C12_ReconcileBeforeWalk ==
    [][ /\ (pc' = "walk" /\ pc # "walk") => (pc = "clean" /\ log'.cleaned)
        /\ (pc # "idle" /\ (files \ files' # {} \/ dirs \ dirs' # {}))
              => (pc = "clean" /\ WalkNotStarted)
        /\ pc = "walk"
              => /\ files \subseteq files' /\ dirs \subseteq dirs'
                 /\ pc' = "walk" => log'.deleted = log.deleted ]_vars

\* a pass whose reconciliation deleted a file and whose walk then wrote one
C12_Witness ==
    /\ pc = "walk"
    /\ log.deleted # {}
    /\ Written # {}

\* C13: with a positive retry interval, and as long as the user does not
\* quit, passes start again and again, whether the executor invocations of
\* a pass succeed or fail.
C13_PeriodicPasses ==
    (CONF.retry > 0 /\ [](pc # "exited")) => []<>(pc = "clean")

\* C14: whenever the scheduler is idle after a pass, a timer is pending if
\* and only if the retry interval is positive; without a positive interval
\* a pass is started by the initial call or by a key only.
C14_RearmIffRetry ==
    /\ pc = "idle" =>
          ((timers > 0 /\ scheduledRun = "pending") <=> CONF.retry > 0)
    /\ pc = "idle" => (timers = 0 <=> CONF.retry <= 0)
    /\ (pc = "clean" /\ CONF.retry <= 0) =>
          hist.trigger \in {"main", "key-idle", "key-during"}

\* idle after a completed pass that followed a deletion by the user (so not
\* the first pass), the timer armed
C14_Witness ==
    /\ pc = "idle"
    /\ hist.completed
    /\ hist.deletes > 0 /\ hist.removed = {}
    /\ CONF.retry > 0
    /\ timers > 0
    /\ scheduledRun = "pending"

\* the name ends with the managed extension .mp4
managedName(name) ==
    /\ Len(name) >= 4
    /\ SubSeq(name, Len(name) - 3, Len(name)) = <<".", "m", "p", "4">>

\* C15: when the noscreen option is absent, the pass writes nothing, by copy
\* or by conversion, for a source file that matches no profile and does not
\* end with .mp4.
C15_DefaultIsSkip ==
    CONF.noscreen = "absent" =>
        \A e \in log.copied \cup log.converted :
            \/ \E n \in ScreenIds : searchOccurs(basename(e[1]), CONF.screens[n])
            \/ managedName(basename(e[1]))

\* directory part of a relative path, <<>> when it has none
relativeFolder(rel) ==
    LET seps == {i \in 1..Len(rel) : rel[i] = "/"}
    IN  IF seps = {} THEN <<>>
        ELSE SubSeq(rel, 1, (CHOOSE i \in seps : \A h \in seps : h <= i) - 1)

\* last segment of a relative path
relativeName(rel) ==
    LET seps == {i \in 1..Len(rel) : rel[i] = "/"}
    IN  IF seps = {} THEN rel
        ELSE SubSeq(rel, (CHOOSE i \in seps : \A h \in seps : h <= i) + 1, Len(rel))

\* destRoot / dirname(rel) / basename(rel) with the first occurrence of the
\* search pattern, ignoring case, replaced by the target token
mappedPath(rel, screen) ==
    LET name == relativeName(rel)
        lower == toLowerCase(name)
        hits == {i \in 1..Len(name) : OccursAt(lower, toLowerCase(screen.search), i)}
        at == CHOOSE i \in hits : \A h \in hits : i <= h
    IN  CONF.destination \o SEP
          \o (IF relativeFolder(rel) = <<>> THEN <<>> ELSE relativeFolder(rel) \o SEP)
          \o Splice(name, at, Len(screen.search), screen.target)

\* C16: for every source-relative path and every profile whose search
\* pattern occurs in its filename, the output path processFile computes is
\* destRoot / dirname(rel) / basename with the first occurrence (ignoring
\* case) of the search pattern replaced by the target token.
C16_DestinationPathMapping ==
    mapping # NoMapping =>
        mapping.outputPath = mappedPath(mapping.rel, CONF.screens[mapping.profile])

\* the paths that existed when the reconciliation of this pass began
\* the source candidate of destination file d for profile n: the first
\* occurrence of that profile's target token in the basename substituted
\* back to its search pattern (d itself, moved under the source root, when
\* the token does not occur)
candidateFor(d, n) ==
    LET name == basename(d)
        t == CONF.screens[n].target
        hit == {i \in 1..Len(name) : OccursAt(name, t, i)}
        back == IF hit = {} THEN name
                ELSE Splice(name, CHOOSE i \in hit : \A h \in hit : i <= h,
                            Len(t), CONF.screens[n].search)
    IN  CONF.source \o relative(dirname(d), CONF.destination) \o SEP \o back

\* the reference procedure, on the tree as it is when reconciliation starts:
\* the profiles whose target token occurs in the basename are tried in table
\* order and the first candidate that exists is the origin; a name without
\* any target token maps to itself; <<>> stands for "no origin"
referenceOrigin(d) ==
    LET tokened == {n \in ScreenIds :
                       \E i \in 1..Len(basename(d)) :
                           OccursAt(basename(d), CONF.screens[n].target, i)}
        found == {n \in tokened : candidateFor(d, n) \in files \cup dirs}
    IN  IF tokened = {}
        THEN (IF candidateFor(d, 1) \in files \cup dirs THEN candidateFor(d, 1) ELSE <<>>)
        ELSE IF found = {} THEN <<>>
        ELSE candidateFor(d, CHOOSE n \in found : \A m \in found : n <= m)

\* the destination files the reconciliation examines one by one: those whose
\* directory survives the pass (the others go with their directory)
examinedFiles == {d \in files : Under(d, CONF.destination) /\ dirname(d) \in dirs'}

\* C17: in a reconciliation step, cleanDestination deletes an examined
\* destination file exactly when the reference procedure (profiles in table
\* order, one target token substituted back in the basename, first existing
\* candidate) finds no origin for it.
C17_InverseIsFirstExistingCandidate ==
    [][(pc = "clean" /\ pc' = "walk") =>
          \A d \in examinedFiles : (d \notin files' <=> referenceOrigin(d) = <<>>)]_vars

\* the walk is about to give a regular, non-ignored file to the dispatcher
AtSourceFile ==
    /\ pc = "walk"
    /\ todo # <<>>
    /\ Head(todo) \in files
    /\ ~ignored(basename(Head(todo)))

\* the destination of (f, p) exists and neither force flag is set
Satisfied(f, p) ==
    /\ destinationPath(f, CONF.screens[p]) \in files
    /\ ~CONF.force
    /\ ~CONF.screens[p].force

\* in the step taken, the executor was started for (f, p): it built the
\* destination with the parameters of p, or it failed on it
invokedFor(f, p) ==
    \/ <<f, destinationPath(f, CONF.screens[p]), p>> \in log'.by \ log.by
    \/ (pc' = "crashed" /\ k' = p
          /\ <<f, destinationPath(f, CONF.screens[p])>> \in log'.failed)

\* the artifact at path d and its producer are the same before and after
leftUnchanged(d) ==
    /\ d \in files'
    /\ {o \in hist'.origin : o[1] = d} = {o \in hist.origin : o[1] = d}

\* what the dispatcher owes the pair (f, p)
decidedFor(f, p) ==
    IF Satisfied(f, p)
    THEN /\ ~invokedFor(f, p)
         /\ dirs' = dirs
         /\ leftUnchanged(destinationPath(f, CONF.screens[p]))
    ELSE invokedFor(f, p)

\* C18: when the dispatcher handles source file f, then for every profile p
\* whose search pattern occurs in the name of f: if the destination exists
\* and neither the global nor the profile's force flag is set, no directory
\* is created, the executor is not invoked for (f, p) and the destination
\* stays as it was; otherwise the executor is invoked for (f, p).
C18_SkipWhenSatisfied ==
    [][AtSourceFile =>
          \A p \in ScreenIds :
              searchOccurs(basename(Head(todo)), CONF.screens[p])
                  => decidedFor(Head(todo), p)]_vars

\* the path of destination directory d with the destination root replaced
\* by the source root and nothing else changed
counterpart(d) == CONF.source \o relative(d, CONF.destination)

\* d and everything below it are gone after the step
goneWithContents(d) ==
    \A q \in files \cup dirs : (q = d \/ Under(q, d)) => q \notin files' \cup dirs'

\* C19: in a reconciliation step, every directory of the destination tree
\* whose counterpart under the source root (prefix replaced, no profile
\* substitution) does not exist is deleted with all its contents, and every
\* directory whose counterpart exists is kept.
C19_DirectoryReconciliation ==
    [][(pc = "clean" /\ pc' = "walk") =>
          \A d \in dirs :
              Under(d, CONF.destination) =>
                  IF counterpart(d) \in files \cup dirs
                  THEN d \in dirs'
                  ELSE goneWithContents(d)]_vars

\* reconciliation has just removed a directory together with a file in it,
\* and has kept the destination root
C19_Witness ==
    /\ JustCleaned
    /\ CONF.destination \in dirs
    /\ \E d \in log.deleted, f \in log.deleted :
          /\ Under(f, d)
          /\ Under(d, CONF.destination)
          /\ counterpart(d) \notin files \cup dirs

\* no pass has been started: the process is before its first run, or has
\* left without one
NoPassYet ==
    /\ pc \in {"start", "exited"}
    /\ hist.running = 0
    /\ ~hist.completed
    /\ log = EmptyLog

\* C20: when a force flag is set in the configuration the user is asked to
\* confirm, and as long as the answer "y" has not been given (the question is
\* still open, or was answered otherwise and the process has exited) no pass
\* has started, so that nothing was overwritten or deleted.
C20_ConfirmationPrecedesForcedWork ==
    question \in {"asked", "refused"} => NoPassYet

\* a pass started by a key handled while the scheduler was idle is at its
\* first step
ManualPassStarts == pc = "clean" /\ hist.trigger = "key-idle"

\* C21: at most one timer is pending; none is pending while a pass runs, so
\* that the timer pending when a key is handled at idle is cancelled before
\* the pass starts; and when a pass has ended with a positive retry interval
\* exactly one timer is armed, the one scheduledRun refers to.
C21_AtMostOnePendingTimer ==
    /\ timers <= 1
    /\ (scheduledRun = "pending") <=> (timers = 1)
    /\ (pc \in {"clean", "walk"}) => timers = 0
    /\ ManualPassStarts => (timers = 0 /\ scheduledRun # "pending")
    /\ (pc = "idle" /\ CONF.retry > 0) => timers = 1

\* a key handled at idle after a completed pass, with a positive retry
\* interval (so a timer was pending), has started a pass, and no timer is
\* left
C21_Witness ==
    /\ ManualPassStarts
    /\ hist.completed
    /\ CONF.retry > 0
    /\ scheduledRun = "stale"
    /\ timers = 0

====
